---- MODULE Spec2Model ----
(***************************************************************************)
(* Document generators of the inventory-management portal:                 *)
(*   scripts/generate_client_proposal.py       ("proposal")                *)
(*   scripts/generate_master_documentation.py  ("master")                  *)
(* Each script builds a python-docx Document with build_doc() and then     *)
(* saves it to a primary path, falling back to a second path.              *)
(*                                                                         *)
(* The document body is the sequence of block nodes appended to it.        *)
(* Texts are opaque, except that a level-1 heading keeps the number n of   *)
(* its "SECTION n" title (0 when the title is not a SECTION title).        *)
(***************************************************************************)
EXTENDS Naturals, Integers, Sequences, FiniteSets

VARIABLES
    gen,        \* which script runs: "proposal" or "master"
    env,        \* file system condition of each output location
    pc,         \* position of main
    ip,         \* number of statements of build_doc executed so far
    doc,        \* body of the Document: sequence of block nodes
    style,      \* doc.styles["Normal"].font, and how often it was set
    section,    \* doc.sections[0]: first-page flag, margins, header, footer
    i,          \* proposal only: index of _save_doc's loop over the paths
    dirs,       \* locations whose parent directory the run has created
    files,      \* location -> document written there by the run, or NoFile
    attempts,   \* log of the file system calls made by the save step
    saved_to,   \* path string the save step resolved to, or None
    stdout,     \* lines printed
    exit,       \* process outcome: Running, or [status, error]
    unit_call,  \* a helper called on its own: function and arguments
    unit_ret    \* what that call returned, or Pending

vars == << gen, env, pc, ip, doc, style, section, i, dirs, files, attempts,
           saved_to, stdout, exit, unit_call, unit_ret >>

buildVars == << doc, style, section >>
saveVars == << i, dirs, files, attempts, saved_to, stdout, exit >>

Generators == {"proposal", "master"}

(***************************************************************************)
(* Paths.  OUTPUT_PATH is absolute; FALLBACK_OUTPUT_PATH is joined from    *)
(* the script's directory and "..", so os.path.abspath gives a different   *)
(* string for the same location.                                           *)
(***************************************************************************)
OUTPUT_PATH == "/mnt/data/doc.docx"
FALLBACK_OUTPUT_PATH == "scripts/../mnt/data/doc.docx"
ABS_FALLBACK_OUTPUT_PATH == "/repo/mnt/data/doc.docx"

abspath(path) ==
    IF path = FALLBACK_OUTPUT_PATH THEN ABS_FALLBACK_OUTPUT_PATH ELSE path

\* the file system location a path string names
Loc(path) == IF path = OUTPUT_PATH THEN "primary" ELSE "fallback"
Locs == {"primary", "fallback"}

None == "None"
NoFile == << "NoFile" >>
Running == [status |-> -1]
NoCall == [fn |-> "none"]
Pending == [done |-> FALSE]
ReturnedValue(value) == [done |-> TRUE, value |-> value]

(***************************************************************************)
(* Outcome of a file system call.  os.makedirs and Document.save either    *)
(* succeed, raise an OSError (the location cannot be used), or raise some  *)
(* other Exception.  The condition of a location is fixed for the run.     *)
(***************************************************************************)
EnvKinds == {"writable", "makedirs_OSError", "makedirs_Exception",
             "save_OSError", "save_Exception"}

makedirs_result(e) ==
    CASE e = "makedirs_OSError" -> "OSError"
      [] e = "makedirs_Exception" -> "Exception"
      [] OTHER -> "ok"

save_result(e) ==
    CASE e = "save_OSError" -> "OSError"
      [] e = "save_Exception" -> "Exception"
      [] OTHER -> "ok"

(***************************************************************************)
(* Block nodes and paragraph children.                                     *)
(***************************************************************************)
\* sec: the number n of a "SECTION n" title, 0 for any other title
Heading(level, sec, text) ==
    [kind |-> "Heading", level |-> level, sec |-> sec, text |-> text]
Paragraph(pstyle, children) ==
    [kind |-> "Paragraph", style |-> pstyle, children |-> children]
PageBreak == [kind |-> "PageBreak"]
\* rows: the number of cells of each row, header row first
Table(cols, rows) == [kind |-> "Table", cols |-> cols, rows |-> rows]

Run(text) == [t |-> "r", text |-> text]

TOC_INSTR == "TOC \\o \"1-3\" \\h \\z \\u"

\* faulty variant: the field has no display text
fldSimple_no_text(instr) == [t |-> "fldSimple", instr |-> instr, text |-> ""]
\* _add_field_simple: the w:fldSimple element appended to a paragraph
fldSimple(instr) == [t |-> "fldSimple", instr |-> instr, text |-> " "]

_add_field_simple(children, instr) == Append(children, fldSimple(instr))

RECURSIVE Rep(_, _)
Rep(x, n) == IF n = 0 THEN << >> ELSE << x >> \o Rep(x, n - 1)

(***************************************************************************)
(* Statements of build_doc.                                                *)
(***************************************************************************)
SNS == [op |-> "_set_normal_style"]
AHF == [op |-> "_add_header_footer"]
CP == [op |-> "_cover_page"]
TP == [op |-> "_title_page"]
TOC == [op |-> "_toc"]
VH == [op |-> "_version_history"]
H1(n) == [op |-> "_h1", sec |-> n]
H2 == [op |-> "_h2"]
H3 == [op |-> "_h3"]
P == [op |-> "_p"]
B == [op |-> "_bullet"]
N == [op |-> "_num"]
AP == [op |-> "add_paragraph"]
PB == [op |-> "add_page_break"]
VST == [op |-> "_add_value_summary_table"]
\* doc.add_table(rows=1, cols=c) followed by a loop over r data tuples
T(c, r) == [op |-> "add_table", cols |-> c, rows |-> r]
\* _feature_section(doc, title=..., ...): the static copy is opaque, the
\* five list arguments are given by their lengths
FS(caps, notes, kpis, outcomes, steps) ==
    [op |-> "_feature_section", title |-> "text", overview |-> "text",
     key_capabilities |-> Rep("text", caps),
     business_benefit |-> "text", operational_benefit |-> "text",
     risk_benefit |-> "text",
     operational_notes |-> Rep("text", notes), kpis |-> Rep("text", kpis),
     typical_outcomes |-> Rep("text", outcomes),
     example_steps |-> Rep("text", steps)]

\* faulty variant: table of contents emitted before the cover
proposal_prologue_toc_first ==
    << SNS, AHF, TOC, CP >>

\* faulty variant: header and footer composed before the style is set
proposal_prologue_style_late ==
    << AHF, SNS, CP, TOC >>
proposal_prologue ==
    << SNS, AHF, CP, TOC >>

proposal_SECTION_1 ==
    << H1(1), P, H2, B, B, B, H2, B, B, B, B, B, H2, B, B, B, B, H2, B, B, B, B,
       H2, B, B, B, H2, B, B, B, B, B, H2, VST, PB >>

proposal_SECTION_2 ==
    << H1(2), H2, P, B, B, B, B, H2, P, B, B, B, B, H2, P, B, B, H2, P, B, B, H2,
       P, B, B, H2, P, B, B, H2, P, B, B, PB >>

proposal_SECTION_3 ==
    << H1(3), P, H2, B, B, B, B, B, H2, B, B, B, H2, B, B, B, H2, B, B, H2, B, B,
       B, H2, B, B, H2, B, B, B, H2, B, B, PB >>

proposal_SECTION_4 ==
    << H1(4), P, P, FS(5, 5, 5, 3, 3), FS(5, 5, 5, 3, 3), FS(5, 5, 5, 3, 3),
       FS(5, 5, 5, 3, 3), FS(5, 5, 5, 3, 3), FS(5, 5, 5, 3, 3), FS(5, 5, 5, 3, 3),
       FS(5, 5, 5, 3, 3), FS(5, 5, 5, 3, 3), FS(5, 5, 5, 3, 3), FS(5, 5, 5, 3, 3),
       PB >>

proposal_SECTION_5 ==
    << H1(5), P, H2, H3, B, B, H3, B, B, H3, B, B, H3, B, H2, B, B, H2, B, B, H2,
       B, B, H2, B, B, PB >>

proposal_SECTION_6 ==
    << H1(6), P, H2, N, N, N, H2, N, N, N, H2, N, N, N, H2, N, N, N, H2, N, N, N,
       H2, N, N, N, H2, N, N, N, PB >>

proposal_SECTION_7 ==
    << H1(7), P, H2, B, B, H2, B, B, H2, B, B, H2, B, B, PB >>

proposal_SECTION_8 ==
    << H1(8), P, H2, B, B, H2, B, B, H2, B, B, H2, B, B, PB >>

proposal_SECTION_9 ==
    << H1(9), P, H2, B, B, H2, B, H2, B, B, H2, B, PB >>

proposal_SECTION_10 ==
    << H1(10), P, H2, B, B, H2, B, B, H2, B, B, H2, B, B, H2, B, PB >>

proposal_SECTION_11 ==
    << H1(11), P, H2, T(3, 5), H2, B, B, B, H2, B, B, H2, B, B, H2, B, B, H2, B,
       B, B, B, B, PB >>

proposal_SECTION_12 ==
    << H1(12), B, B, B, B, B, B, B, PB >>

proposal_SECTION_13 ==
    << H1(13), P, H2, B, B, H2, B, B, H2, B, B, H2, B, B, PB >>

proposal_SECTION_14 ==
    << H1(14), P, P >>

proposal_build_doc ==
    proposal_prologue
    \o proposal_SECTION_1
    \o proposal_SECTION_2
    \o proposal_SECTION_3
    \o proposal_SECTION_4
    \o proposal_SECTION_5
    \o proposal_SECTION_6
    \o proposal_SECTION_7
    \o proposal_SECTION_8
    \o proposal_SECTION_9
    \o proposal_SECTION_10
    \o proposal_SECTION_11
    \o proposal_SECTION_12
    \o proposal_SECTION_13
    \o proposal_SECTION_14

master_prologue ==
    << SNS, AHF, TP, TOC, VH >>

master_SECTION_1 ==
    << H1(1), H2, B, B, H2, B, B, B, H2, B, B, B, B, H2, B, B, B, PB >>

master_SECTION_2 ==
    << H1(2), H2, B, B, B, H2, B, B, H2, B, B, B, H2, B, B, B, H2, B, B, H2, B, B,
       H2, B, PB >>

master_SECTION_3 ==
    << H1(3), H2, B, B, H2, B, B, H2, B, H2, B, H2, B, B, H2, B, B, H2, B, B, B,
       PB >>

master_SECTION_4 ==
    << H1(4), H2, H3, B, H3, B, H3, B, H3, B, H3, B, H3, B, H3, B, H3, B, H3, B,
       H2, H3, B, H3, B, H3, B, H3, B, H3, B, H3, B, H3, B, H3, B, H3, B, H2, H3,
       B, H3, B, H3, B, H3, B, H3, B, H3, B, H3, B, H3, B, H3, B, H2, H3, B, H3,
       B, H3, B, H3, B, H3, B, H3, B, H3, B, H3, B, H3, B, H2, H3, B, H3, B, H3,
       B, H3, B, H3, B, H3, B, H3, B, H3, B, H3, B, H2, H3, B, H3, B, H3, B, H3,
       B, H3, B, H3, B, H3, B, H3, B, H3, B, H2, H3, B, H3, B, H3, B, H3, B, H3,
       B, H3, B, H3, B, H3, B, H3, B, H2, H3, B, H3, B, H3, B, H3, B, H3, B, H3,
       B, H3, B, H3, B, H3, B, H2, H3, B, H3, B, H3, B, H3, B, H3, B, H3, B, H3,
       B, H3, B, H3, B, H2, H3, B, H3, B, H3, B, H3, B, H3, B, H3, B, H3, B, H3,
       B, H3, B, H2, H3, B, H3, B, H3, B, H3, B, H3, B, H3, B, H3, B, H3, B, H3,
       B, H2, H3, B, H3, B, H3, B, H3, B, H3, B, H3, B, H3, B, H3, B, H3, B, H2,
       H3, B, H3, B, H3, B, H3, B, H3, B, H3, B, H3, B, H3, B, H3, B, PB >>

master_SECTION_5 ==
    << H1(5), H2, B, B, H2, B, B, H3, N, N, N, N, N, N, N, N, N, H2, B, H3, N, N,
       N, N, N, H2, B, H3, N, N, N, N, N, N, H2, B, H3, N, N, N, PB >>

master_SECTION_6 ==
    << H1(6), H2, H3, B, H3, B, H3, B, H3, B, H3, B, H3, B, H2, H3, B, H3, B, H3,
       B, H3, B, H3, B, H3, B, H2, H3, B, H3, B, H3, B, H3, B, H3, B, H3, B, H2,
       H3, B, H3, B, H3, B, H3, B, H3, B, H3, B, H2, H3, B, H3, B, H3, B, H3, B,
       H3, B, H3, B, H2, H3, B, H3, B, H3, B, H3, B, H3, B, H3, B, H2, H3, B, H3,
       B, H3, B, H3, B, H3, B, H3, B, H2, H3, B, H3, B, H3, B, H3, B, H3, B, H3,
       B, H2, H3, B, H3, B, H3, B, H3, B, H3, B, H3, B, H2, H3, B, H3, B, H3, B,
       H3, B, H3, B, H3, B, H2, H3, B, H3, B, H3, B, H3, B, H3, B, H3, B, PB >>

master_SECTION_7 ==
    << H1(7), H2, B, B, B, H2, B, H2, B, PB >>

master_SECTION_8 ==
    << H1(8), H2, B, H2, B, H2, B, H2, B, PB >>

master_SECTION_9 ==
    << H1(9), H2, B, B, H2, B, H2, B, H2, B, H2, B, PB >>

master_SECTION_10 ==
    << H1(10), H2, B, B, B, H2, B, H2, B, PB >>

master_SECTION_11 ==
    << H1(11), N, N, N, N, N, N, N, N, PB >>

master_SECTION_12 ==
    << H1(12), H2, B, B, B, B, B, B, B, B, PB >>

master_SECTION_13 ==
    << H1(13), H2, AP, H2, AP, H2, AP, H2, AP, H2, AP, H2, AP, H2, AP, H2, AP, H2,
       AP, H2, AP, H2, AP >>

master_build_doc ==
    master_prologue
    \o master_SECTION_1
    \o master_SECTION_2
    \o master_SECTION_3
    \o master_SECTION_4
    \o master_SECTION_5
    \o master_SECTION_6
    \o master_SECTION_7
    \o master_SECTION_8
    \o master_SECTION_9
    \o master_SECTION_10
    \o master_SECTION_11
    \o master_SECTION_12
    \o master_SECTION_13

build_doc(g) == IF g = "proposal" THEN proposal_build_doc ELSE master_build_doc

(***************************************************************************)
(* Nodes appended by the helpers.                                          *)
(***************************************************************************)
_h1(sec) == << Heading(1, sec, "SECTION") >>
\* faulty variant: the sub-section heading is emitted one level too deep
_h2_level3(title) == << Heading(3, 0, title) >>
_h2(title) == << Heading(2, 0, title) >>
\* faulty variant: a heading one level below the deepest one in use
_h3_level4(title) == << Heading(4, 0, title) >>
_h3(title) == << Heading(3, 0, title) >>
_p(text) == << Paragraph("Normal", << Run(text) >>) >>
_bullet(text) == << Paragraph("List Bullet", << Run(text) >>) >>
_num(text) == << Paragraph("List Number", << Run(text) >>) >>
\* faulty variant: two break nodes per call
add_page_break_twice == << [kind |-> "PageBreak"], [kind |-> "PageBreak"] >>
\* faulty variant: the break is a section break, which opens a new layout
\* section
add_page_break_as_section == << [kind |-> "SectionBreak"] >>
add_page_break == << PageBreak >>

_cover_page ==
    << Paragraph("Normal", << Run("SYSTEM_NAME") >>),
       Paragraph("Normal", << Run("Client Proposal") >>),
       Paragraph("Normal", << >>),
       Paragraph("Normal", << Run("Version"), Run("Date"),
                              Run("Prepared for"), Run("Prepared by") >>) >>
    \o add_page_break

_title_page ==
    << Paragraph("Normal", << Run("SYSTEM_NAME") >>),
       Paragraph("Normal", << Run("Master Documentation") >>),
       Paragraph("Normal", << >>),
       Paragraph("Normal", << Run("Version"), Run("Prepared by"),
                              Run("Date") >>) >>
    \o add_page_break

\* faulty variant: the contents field without its heading
_toc_no_heading ==
    << Paragraph("Normal", _add_field_simple(<< >>, TOC_INSTR)) >>
    \o add_page_break
_toc ==
    << Heading(1, 0, "Table of Contents"),
       Paragraph("Normal", _add_field_simple(<< >>, TOC_INSTR)) >>
    \o add_page_break

\* faulty variant: a data row gets one cell more than the header row
add_table_ragged(c, r) ==
    << [kind |-> "Table", cols |-> c, rows |-> << c >> \o Rep(c + 1, r)] >>
\* add_table(rows=1, cols=c), then one add_row() per data tuple
add_table(c, r) == << Table(c, Rep(c, 1 + r)) >>

\* faulty variant: no page break after the version history table
_version_history_no_break ==
    << Heading(1, 0, "Version History"), Table(4, << 4, 4 >>) >>

_version_history ==
    << Heading(1, 0, "Version History") >> \o add_table(4, 1)
    \o add_page_break

_add_value_summary_table == add_table(4, 6)

\* f"Business benefit: {business}" and its two siblings
\* faulty variant: the operational benefit comes before the business benefit
_benefits_block_reordered(business, operational, risk) ==
    _h3("Benefits")
    \o _bullet(<< "Operational benefit: ", operational >>)
    \o _bullet(<< "Business benefit: ", business >>)
    \o _bullet(<< "Risk mitigation benefit: ", risk >>)
_benefits_block(business, operational, risk) ==
    _h3("Benefits")
    \o _bullet(<< "Business benefit: ", business >>)
    \o _bullet(<< "Operational benefit: ", operational >>)
    \o _bullet(<< "Risk mitigation benefit: ", risk >>)

\* for x in items: _bullet(doc, x)
RECURSIVE bullets(_)
bullets(items) ==
    IF items = << >> THEN << >>
    ELSE _bullet(Head(items)) \o bullets(Tail(items))

\* faulty variant: the example steps come out as bullets
nums_as_bullets(items) == bullets(items)
\* for step in example_steps: _num(doc, step)
RECURSIVE nums(_)
nums(items) ==
    IF items = << >> THEN << >>
    ELSE _num(Head(items)) \o nums(Tail(items))

\* faulty variant: a list heading is left out when its list is empty
h3_unless_empty(title, nodes) ==
    IF nodes = << >> THEN << >> ELSE _h3(title) \o nodes

_feature_section_skip_empty(f) ==
    _h2(f.title)
    \o _p(f.overview)
    \o h3_unless_empty("Key capabilities", bullets(f.key_capabilities))
    \o _benefits_block(f.business_benefit, f.operational_benefit,
                       f.risk_benefit)
    \o h3_unless_empty("Operational notes (enterprise-friendly)",
                       bullets(f.operational_notes))
    \o h3_unless_empty("KPIs & measurable outcomes", bullets(f.kpis))
    \o h3_unless_empty("Typical outcomes (what clients can expect)",
                       bullets(f.typical_outcomes))
    \o h3_unless_empty("Example in practice (simplified)",
                       nums(f.example_steps))
_feature_section(f) ==
    _h2(f.title)
    \o _p(f.overview)
    \o _h3("Key capabilities")
    \o bullets(f.key_capabilities)
    \o _benefits_block(f.business_benefit, f.operational_benefit,
                       f.risk_benefit)
    \o _h3("Operational notes (enterprise-friendly)")
    \o bullets(f.operational_notes)
    \o _h3("KPIs & measurable outcomes")
    \o bullets(f.kpis)
    \o _h3("Typical outcomes (what clients can expect)")
    \o bullets(f.typical_outcomes)
    \o _h3("Example in practice (simplified)")
    \o nums(f.example_steps)

(***************************************************************************)
(* Style and the layout section.                                           *)
(***************************************************************************)
HFPara(align, children) == [align |-> align, children |-> children]

\* faulty variant: a paragraph is added even when one exists
first_or_new_always_adds(paragraphs) ==
    << HFPara("none", << >>) >> \o paragraphs
\* header.paragraphs[0] if header.paragraphs else header.add_paragraph()
first_or_new(paragraphs) ==
    IF paragraphs # << >> THEN paragraphs ELSE << HFPara("none", << >>) >>

\* faulty variant: the two fields change places
PageOf_swapped(children) ==
    _add_field_simple(
        Append(_add_field_simple(Append(children, Run("Page ")), "NUMPAGES"),
               Run(" of ")),
        "PAGE")
PageOf(children) ==
    _add_field_simple(
        Append(_add_field_simple(Append(children, Run("Page ")), "PAGE"),
               Run(" of ")),
        "NUMPAGES")

proposal_add_header_footer(s) ==
    LET hps == first_or_new(s.header.paragraphs)
        fps == first_or_new(s.footer.paragraphs)
    IN  [different_first_page_header_footer |-> TRUE,
         margins |-> << 85, 85, 95, 95 >>,
         first_page_header |-> s.first_page_header,
         first_page_footer |-> s.first_page_footer,
         header |-> [paragraphs |->
                       [hps EXCEPT ![1] = HFPara("CENTER",
                                                 << Run("SYSTEM_NAME") >>)],
                     tables |-> s.header.tables],
         footer |-> [paragraphs |->
                       [fps EXCEPT ![1] = HFPara("CENTER", PageOf(<< >>))],
                     tables |-> s.footer.tables]]

master_add_header_footer(s) ==
    LET hps == first_or_new(s.header.paragraphs)
        fps == first_or_new(s.footer.paragraphs)
    IN  [different_first_page_header_footer |-> TRUE,
         margins |-> << 80, 80, 90, 90 >>,
         first_page_header |-> s.first_page_header,
         first_page_footer |-> s.first_page_footer,
         header |-> [paragraphs |->
                       [hps EXCEPT ![1] = HFPara("CENTER",
                                            << Run("SYSTEM_NAME v VERSION") >>)],
                     tables |-> s.header.tables],
         footer |-> [paragraphs |->
                       [fps EXCEPT ![1] = HFPara(fps[1].align, << >>)],
                     tables |-> Append(s.footer.tables,
                       << HFPara("LEFT", << Run("CONFIDENTIAL_NOTE") >>),
                          HFPara("RIGHT", PageOf(<< >>)) >>)]]

\* faulty variant: header and footer are written to the first-page parts
_add_header_footer_first_page(g, s) ==
    LET out == IF g = "proposal" THEN proposal_add_header_footer(s)
               ELSE master_add_header_footer(s)
    IN  [out EXCEPT !.first_page_header = out.header,
                    !.first_page_footer = out.footer,
                    !.header = s.header, !.footer = s.footer]
_add_header_footer(g, s) ==
    IF g = "proposal" THEN proposal_add_header_footer(s)
    ELSE master_add_header_footer(s)

_set_normal_style(st) == [name |-> "Calibri", size |-> 11, sets |-> st.sets + 1]

(***************************************************************************)
(* Initial state: Document() has just been created by build_doc.           *)
(***************************************************************************)
\* the header and footer parts of a new Document hold one empty paragraph
EmptyPart == [paragraphs |-> << HFPara("none", << >>) >>, tables |-> << >>]

\* the first-page header and footer have no content of their own
BlankPart == [paragraphs |-> << >>, tables |-> << >>]

\* doc.sections[0] before _add_header_footer, for given header and footer
\* paragraphs
NewSection(hps, fps) ==
    [different_first_page_header_footer |-> FALSE,
     margins |-> << 100, 100, 125, 125 >>,
     header |-> [paragraphs |-> hps, tables |-> << >>],
     footer |-> [paragraphs |-> fps, tables |-> << >>],
     first_page_header |-> BlankPart,
     first_page_footer |-> BlankPart]

Init ==
    /\ gen \in Generators
    /\ env \in [Locs -> EnvKinds]
    /\ pc = "build_doc"
    /\ ip = 0
    /\ doc = << >>
    /\ style = [name |-> "default", size |-> 0, sets |-> 0]
    /\ section = NewSection(EmptyPart.paragraphs, EmptyPart.paragraphs)
    /\ i = 1
    /\ dirs = {}
    /\ files = [l \in Locs |-> NoFile]
    /\ attempts = << >>
    /\ saved_to = None
    /\ stdout = << >>
    /\ exit = Running
    /\ unit_call = NoCall
    /\ unit_ret = Pending

(***************************************************************************)
(* build_doc, one statement at a time.                                     *)
(***************************************************************************)
Stmt == build_doc(gen)[ip + 1]

At(op) ==
    /\ pc = "build_doc"
    /\ ip < Len(build_doc(gen))
    /\ Stmt.op = op

\* faulty variant: every builder call also writes the document so far to the
\* primary path
Emit_writing(nodes) ==
    /\ doc' = doc \o nodes
    /\ ip' = ip + 1
    /\ dirs' = dirs \cup {Loc(OUTPUT_PATH)}
    /\ files' = [files EXCEPT ![Loc(OUTPUT_PATH)] = doc \o nodes]
    /\ UNCHANGED << unit_call, unit_ret, gen, env, pc, style, section, i,
                    attempts, saved_to, stdout, exit >>
Emit(nodes) ==
    /\ doc' = doc \o nodes
    /\ ip' = ip + 1
    /\ UNCHANGED << unit_call, unit_ret, gen, env, pc, style, section, saveVars >>

Step_set_normal_style ==
    /\ At("_set_normal_style")
    /\ style' = _set_normal_style(style)
    /\ ip' = ip + 1
    /\ UNCHANGED << unit_call, unit_ret, gen, env, pc, doc, section, saveVars >>

Step_add_header_footer ==
    /\ At("_add_header_footer")
    /\ section' = _add_header_footer(gen, section)
    /\ ip' = ip + 1
    /\ UNCHANGED << unit_call, unit_ret, gen, env, pc, doc, style, saveVars >>

Step_cover_page == At("_cover_page") /\ Emit(_cover_page)
Step_title_page == At("_title_page") /\ Emit(_title_page)
Step_toc == At("_toc") /\ Emit(_toc)
Step_version_history == At("_version_history") /\ Emit(_version_history)
Step_h1 == At("_h1") /\ Emit(_h1(Stmt.sec))
Step_h2 == At("_h2") /\ Emit(_h2("text"))
Step_h3 == At("_h3") /\ Emit(_h3("text"))
Step_p == At("_p") /\ Emit(_p("text"))
Step_bullet == At("_bullet") /\ Emit(_bullet("text"))
Step_num == At("_num") /\ Emit(_num("text"))
Step_add_paragraph == At("add_paragraph") /\ Emit(_p("text"))
Step_add_page_break == At("add_page_break") /\ Emit(add_page_break)
Step_feature_section == At("_feature_section") /\ Emit(_feature_section(Stmt))
Step_add_value_summary_table ==
    At("_add_value_summary_table") /\ Emit(_add_value_summary_table)
Step_add_table == At("add_table") /\ Emit(add_table(Stmt.cols, Stmt.rows))

\* return doc: main goes on to the save step
Step_return ==
    /\ pc = "build_doc"
    /\ ip = Len(build_doc(gen))
    /\ pc' = IF gen = "proposal" THEN "_save_doc.makedirs" ELSE "main.makedirs"
    /\ UNCHANGED << unit_call, unit_ret, gen, env, ip, buildVars, saveVars >>

(***************************************************************************)
(* The save step.                                                          *)
(***************************************************************************)
\* faulty variants of the candidate list: fallback first; primary twice
CANDIDATES_swapped == << FALLBACK_OUTPUT_PATH, OUTPUT_PATH >>
CANDIDATES_retry == << OUTPUT_PATH, OUTPUT_PATH, FALLBACK_OUTPUT_PATH >>

\* proposal: for path in (OUTPUT_PATH, FALLBACK_OUTPUT_PATH)
CANDIDATES == << OUTPUT_PATH, FALLBACK_OUTPUT_PATH >>

\* faulty variant: the handler catches nothing
proposal_except_none(exc) == FALSE

\* proposal: except Exception
proposal_except(exc) == exc \in {"OSError", "Exception"}

\* faulty variants: the handler catches nothing; the handler catches all
master_except_none(exc) == FALSE
master_except_all(exc) == TRUE

\* master: except OSError
master_except(exc) == exc = "OSError"

NoError == [type |-> "None", paths |-> {}]

\* raise RuntimeError("Unable to save the document to the primary or
\* fallback output path."): the message holds no path string
RuntimeError == [type |-> "RuntimeError", paths |-> {}]

\* an error raised by os.makedirs or Document.save for a path: it can name
\* the path of the failing call only
LibError(exc, path) == [type |-> exc, paths |-> {path}]

\* an exception leaves main: traceback on stderr, exit status 1
Uncaught(error) == [status |-> 1, error |-> error]
Returned == [status |-> 0, error |-> NoError]

Log(path, call, result) ==
    attempts' = Append(attempts, [path |-> path, call |-> call,
                                  result |-> result])

\* proposal _save_doc: the exception handler's continue
Continue ==
    /\ i' = i + 1
    /\ pc' = IF i + 1 <= Len(CANDIDATES) THEN "_save_doc.makedirs"
             ELSE "_save_doc.raise"

proposal_makedirs ==
    /\ gen = "proposal"
    /\ pc = "_save_doc.makedirs"
    /\ LET path == CANDIDATES[i]
           r == makedirs_result(env[Loc(path)])
       IN  /\ Log(path, "makedirs", r)
           /\ IF r = "ok"
              THEN /\ dirs' = dirs \cup {Loc(path)}
                   /\ pc' = "_save_doc.save"
                   /\ UNCHANGED << i, exit >>
              ELSE IF proposal_except(r)
              THEN Continue /\ UNCHANGED << dirs, exit >>
              ELSE /\ exit' = Uncaught(LibError(r, path))
                   /\ pc' = "exit"
                   /\ UNCHANGED << i, dirs >>
    /\ UNCHANGED << unit_call, unit_ret, gen, env, ip, buildVars, files, saved_to, stdout >>

\* faulty variant: the loop goes on to the next candidate after a successful
\* write
proposal_save_no_return ==
    /\ gen = "proposal"
    /\ pc = "_save_doc.save"
    /\ LET path == CANDIDATES[i]
           r == save_result(env[Loc(path)])
       IN  /\ Log(path, "save", r)
           /\ IF r = "ok"
              THEN /\ files' = [files EXCEPT ![Loc(path)] = doc]
                   /\ saved_to' = path
                   /\ Continue
                   /\ UNCHANGED exit
              ELSE IF proposal_except(r)
              THEN Continue /\ UNCHANGED << files, saved_to, exit >>
              ELSE /\ exit' = Uncaught(LibError(r, path))
                   /\ pc' = "exit"
                   /\ UNCHANGED << i, files, saved_to >>
    /\ UNCHANGED << unit_call, unit_ret, gen, env, ip, buildVars, dirs, stdout >>
\* faulty variant: a failed write removes the directory created for it
proposal_save_rollback ==
    /\ gen = "proposal"
    /\ pc = "_save_doc.save"
    /\ LET path == CANDIDATES[i]
           r == save_result(env[Loc(path)])
       IN  /\ Log(path, "save", r)
           /\ IF r = "ok"
              THEN /\ files' = [files EXCEPT ![Loc(path)] = doc]
                   /\ saved_to' = path
                   /\ pc' = "main.print"
                   /\ UNCHANGED << i, exit, dirs >>
              ELSE IF proposal_except(r)
              THEN /\ Continue
                   /\ dirs' = dirs \ {Loc(path)}
                   /\ UNCHANGED << files, saved_to, exit >>
              ELSE /\ exit' = Uncaught(LibError(r, path))
                   /\ pc' = "exit"
                   /\ UNCHANGED << i, files, saved_to, dirs >>
    /\ UNCHANGED << unit_call, unit_ret, gen, env, ip, buildVars, stdout >>
proposal_save ==
    /\ gen = "proposal"
    /\ pc = "_save_doc.save"
    /\ LET path == CANDIDATES[i]
           r == save_result(env[Loc(path)])
       IN  /\ Log(path, "save", r)
           /\ IF r = "ok"
              THEN /\ files' = [files EXCEPT ![Loc(path)] = doc]
                   /\ saved_to' = path
                   /\ pc' = "main.print"
                   /\ UNCHANGED << i, exit >>
              ELSE IF proposal_except(r)
              THEN Continue /\ UNCHANGED << files, saved_to, exit >>
              ELSE /\ exit' = Uncaught(LibError(r, path))
                   /\ pc' = "exit"
                   /\ UNCHANGED << i, files, saved_to >>
    /\ UNCHANGED << unit_call, unit_ret, gen, env, ip, buildVars, dirs, stdout >>

proposal_raise ==
    /\ gen = "proposal"
    /\ pc = "_save_doc.raise"
    /\ exit' = Uncaught(RuntimeError)
    /\ pc' = "exit"
    /\ UNCHANGED << unit_call, unit_ret, gen, env, ip, buildVars, i, dirs, files, attempts,
                    saved_to, stdout >>

Line(text, path) == [text |-> text, path |-> path]

\* faulty variants: always report the primary path; drop the notice
proposal_print_primary(path) == << Line("Saved", OUTPUT_PATH) >>
proposal_print_no_notice(path) == << Line("Saved", path) >>

proposal_print(path) ==
    << Line("Saved", path) >>
    \o IF path # OUTPUT_PATH
       THEN << Line("Primary path not available on this machine",
                    OUTPUT_PATH),
               Line("If you need the exact /mnt/data path", None) >>
       ELSE << >>

proposal_main_print ==
    /\ gen = "proposal"
    /\ pc = "main.print"
    /\ stdout' = stdout \o proposal_print(saved_to)
    /\ exit' = Returned
    /\ pc' = "exit"
    /\ UNCHANGED << unit_call, unit_ret, gen, env, ip, buildVars, i, dirs, files, attempts,
                    saved_to >>

master_makedirs ==
    /\ gen = "master"
    /\ pc = "main.makedirs"
    /\ LET r == makedirs_result(env[Loc(OUTPUT_PATH)])
       IN  /\ Log(OUTPUT_PATH, "makedirs", r)
           /\ IF r = "ok"
              THEN /\ dirs' = dirs \cup {Loc(OUTPUT_PATH)}
                   /\ pc' = "main.save"
                   /\ UNCHANGED exit
              ELSE IF master_except(r)
              THEN /\ pc' = "main.fallback_makedirs"
                   /\ UNCHANGED << dirs, exit >>
              ELSE /\ exit' = Uncaught(LibError(r, OUTPUT_PATH))
                   /\ pc' = "exit"
                   /\ UNCHANGED dirs
    /\ UNCHANGED << unit_call, unit_ret, gen, env, ip, buildVars, i, files, saved_to, stdout >>

\* faulty variant: the handler of a failed primary attempt appends to the
\* document before the fallback is tried
master_save_mutating ==
    /\ gen = "master"
    /\ pc = "main.save"
    /\ LET r == save_result(env[Loc(OUTPUT_PATH)])
       IN  /\ Log(OUTPUT_PATH, "save", r)
           /\ IF r = "ok"
              THEN /\ files' = [files EXCEPT ![Loc(OUTPUT_PATH)] = doc]
                   /\ saved_to' = OUTPUT_PATH
                   /\ pc' = "main.print"
                   /\ UNCHANGED << exit, doc >>
              ELSE IF master_except(r)
              THEN /\ pc' = "main.fallback_makedirs"
                   /\ doc' = doc \o add_page_break
                   /\ UNCHANGED << files, saved_to, exit >>
              ELSE /\ exit' = Uncaught(LibError(r, OUTPUT_PATH))
                   /\ pc' = "exit"
                   /\ UNCHANGED << files, saved_to, doc >>
    /\ UNCHANGED << unit_call, unit_ret, gen, env, ip, style, section, i,
                    dirs, stdout >>
master_save ==
    /\ gen = "master"
    /\ pc = "main.save"
    /\ LET r == save_result(env[Loc(OUTPUT_PATH)])
       IN  /\ Log(OUTPUT_PATH, "save", r)
           /\ IF r = "ok"
              THEN /\ files' = [files EXCEPT ![Loc(OUTPUT_PATH)] = doc]
                   /\ saved_to' = OUTPUT_PATH
                   /\ pc' = "main.print"
                   /\ UNCHANGED exit
              ELSE IF master_except(r)
              THEN /\ pc' = "main.fallback_makedirs"
                   /\ UNCHANGED << files, saved_to, exit >>
              ELSE /\ exit' = Uncaught(LibError(r, OUTPUT_PATH))
                   /\ pc' = "exit"
                   /\ UNCHANGED << files, saved_to >>
    /\ UNCHANGED << unit_call, unit_ret, gen, env, ip, buildVars, i, dirs, stdout >>

\* print is taken to succeed: standard output is available to the run
master_print ==
    /\ gen = "master"
    /\ pc = "main.print"
    /\ stdout' = Append(stdout, Line("Saved", OUTPUT_PATH))
    /\ exit' = Returned
    /\ pc' = "exit"
    /\ UNCHANGED << unit_call, unit_ret, gen, env, ip, buildVars, i, dirs, files, attempts,
                    saved_to >>

master_fallback_makedirs ==
    /\ gen = "master"
    /\ pc = "main.fallback_makedirs"
    /\ LET path == abspath(FALLBACK_OUTPUT_PATH)
           r == makedirs_result(env[Loc(path)])
       IN  /\ Log(path, "makedirs", r)
           /\ IF r = "ok"
              THEN /\ dirs' = dirs \cup {Loc(path)}
                   /\ pc' = "main.fallback_save"
                   /\ UNCHANGED exit
              ELSE /\ exit' = Uncaught(LibError(r, path))
                   /\ pc' = "exit"
                   /\ UNCHANGED dirs
    /\ UNCHANGED << unit_call, unit_ret, gen, env, ip, buildVars, i, files, saved_to, stdout >>

master_fallback_save ==
    /\ gen = "master"
    /\ pc = "main.fallback_save"
    /\ LET path == abspath(FALLBACK_OUTPUT_PATH)
           r == save_result(env[Loc(path)])
       IN  /\ Log(path, "save", r)
           /\ IF r = "ok"
              THEN /\ files' = [files EXCEPT ![Loc(path)] = doc]
                   /\ saved_to' = path
                   /\ pc' = "main.fallback_print"
                   /\ UNCHANGED exit
              ELSE /\ exit' = Uncaught(LibError(r, path))
                   /\ pc' = "exit"
                   /\ UNCHANGED << files, saved_to >>
    /\ UNCHANGED << unit_call, unit_ret, gen, env, ip, buildVars, i, dirs, stdout >>

master_fallback_print ==
    /\ gen = "master"
    /\ pc = "main.fallback_print"
    /\ stdout' = Append(stdout, Line("Saved (fallback)",
                                     abspath(FALLBACK_OUTPUT_PATH)))
    /\ exit' = Returned
    /\ pc' = "exit"
    /\ UNCHANGED << unit_call, unit_ret, gen, env, ip, buildVars, i, dirs, files, attempts,
                    saved_to >>

Next ==
    \/ Step_set_normal_style
    \/ Step_add_header_footer
    \/ Step_cover_page
    \/ Step_title_page
    \/ Step_toc
    \/ Step_version_history
    \/ Step_h1
    \/ Step_h2
    \/ Step_h3
    \/ Step_p
    \/ Step_bullet
    \/ Step_num
    \/ Step_add_paragraph
    \/ Step_add_page_break
    \/ Step_feature_section
    \/ Step_add_value_summary_table
    \/ Step_add_table
    \/ Step_return
    \/ proposal_makedirs
    \/ proposal_save
    \/ proposal_raise
    \/ proposal_main_print
    \/ master_makedirs
    \/ master_save
    \/ master_print
    \/ master_fallback_makedirs
    \/ master_fallback_save
    \/ master_fallback_print

Spec == Init /\ [][Next]_vars

(***************************************************************************)
(* Vocabulary of the properties.                                           *)
(***************************************************************************)
Done == pc = "exit"
Built == pc # "build_doc"

\* the location cannot be used: creating its directory or writing to it
\* is refused by the operating system
Unwritable(l) == env[l] \in {"makedirs_OSError", "save_OSError"}
Writable(l) == env[l] = "writable"

\* the configured order of the candidates
Rank(path) == IF Loc(path) = "primary" THEN 1 ELSE 2

AttemptsOn(l) == {j \in DOMAIN attempts : Loc(attempts[j].path) = l}
CallsOn(l, call) == {j \in AttemptsOn(l) : attempts[j].call = call}
Succeeded(l) ==
    /\ \E j \in CallsOn(l, "makedirs") : attempts[j].result = "ok"
    /\ \E j \in CallsOn(l, "save") : attempts[j].result = "ok"
FailedOn(l) == \E j \in AttemptsOn(l) : attempts[j].result # "ok"
NoFileAt(l) == files[l] = NoFile

SavedLines == {j \in DOMAIN stdout : stdout[j].text \in {"Saved", "Saved (fallback)"}}
NoticeLines ==
    {j \in DOMAIN stdout :
        stdout[j].text = "Primary path not available on this machine"}

C2_UnwritablePrimaryFallsBack ==
    (Done /\ Unwritable("primary") /\ Writable("fallback")) =>
        /\ saved_to # None
        /\ Loc(saved_to) = "fallback"
        /\ files["fallback"] = doc
        /\ NoFileAt("primary")

C2_Witness ==
    /\ Done
    /\ gen = "master"
    /\ env["primary"] = "save_OSError"
    /\ Writable("fallback")
    /\ files["fallback"] # NoFile

FallbackFollows(j) ==
    /\ j < Len(attempts)
    /\ Loc(attempts[j + 1].path) = "fallback"
    /\ attempts[j + 1].call = "makedirs"

C4_WitnessMaster ==
    /\ Done
    /\ gen = "master"
    /\ Len(attempts) = 2
    /\ attempts[2].result = "Exception"
    /\ AttemptsOn("fallback") = {}
    /\ exit.status = 1

C5_WitnessFailure ==
    /\ Done
    /\ exit.status = 1
    /\ env["primary"] = "makedirs_OSError"
    /\ env["fallback"] = "save_Exception"
    /\ stdout = << >>

PrimaryFailureCaught ==
    \E j \in AttemptsOn("primary") :
        /\ attempts[j].result # "ok"
        /\ gen = "proposal" \/ attempts[j].result = "OSError"

IsPageBreak(n) == n.kind = "PageBreak"
IsHeading(n, level) == n.kind = "Heading" /\ n.level = level
\* the level-1 heading that opens a named section ("SECTION n ...")
IsSectionHeading(n) == IsHeading(n, 1) /\ n.sec > 0

TocFields(n) ==
    IF n.kind = "Paragraph"
    THEN {c \in DOMAIN n.children :
             /\ n.children[c].t = "fldSimple"
             /\ n.children[c].instr = TOC_INSTR}
    ELSE {}

TocNodes == {k \in DOMAIN doc : TocFields(doc[k]) # {}}
PageBreaks == {k \in DOMAIN doc : IsPageBreak(doc[k])}
SectionStarts == {k \in DOMAIN doc : IsSectionHeading(doc[k])}

Min(S) == CHOOSE x \in S : \A y \in S : x <= y

\* the cover block: the nodes up to and including the first page break
CoverEnd == Min(PageBreaks)

\* the last node of the section that starts at k
SectionEnd(k) ==
    LET later == {m \in SectionStarts : m > k}
    IN  IF later = {} THEN Len(doc) ELSE Min(later) - 1

BreaksIn(k) == {m \in PageBreaks : k <= m /\ m <= SectionEnd(k)}
LastSection == CHOOSE k \in SectionStarts : \A m \in SectionStarts : m <= k

(***************************************************************************)
(* C8: the built node sequence holds the TOC field exactly once, after     *)
(* every node of the cover block (its page break included) and before the  *)
(* first node of every named section.                                      *)
(***************************************************************************)
C8_TocOnceAfterCoverBeforeSections ==
    Built =>
        /\ Cardinality(TocNodes) = 1
        /\ \A k \in TocNodes :
              /\ Cardinality(TocFields(doc[k])) = 1
              /\ PageBreaks # {}
              /\ k > CoverEnd
              /\ \A m \in SectionStarts : k < m
        /\ SectionStarts # {}

C8_Witness ==
    /\ Built
    /\ gen = "proposal"
    /\ TocNodes = {7}
    /\ CoverEnd = 5
    /\ Min(SectionStarts) = 9

(***************************************************************************)
(* C9 as stated: every named section, the last one included, ends with     *)
(* exactly one page-break node.                                            *)
(***************************************************************************)
C9_Original ==
    Built =>
        \A k \in SectionStarts :
            /\ IsPageBreak(doc[SectionEnd(k)])
            /\ Cardinality(BreaksIn(k)) = 1

(***************************************************************************)
(* C9 amended: every named section but the last ends with exactly one      *)
(* page-break node; the last named section ends the document and holds no  *)
(* page-break node.                                                        *)
(***************************************************************************)
C9_AllButLastEndWithBreak ==
    Built =>
        /\ SectionStarts # {}
        /\ \A k \in SectionStarts \ {LastSection} :
              /\ IsPageBreak(doc[SectionEnd(k)])
              /\ BreaksIn(k) = {SectionEnd(k)}
        /\ SectionEnd(LastSection) = Len(doc)
        /\ BreaksIn(LastSection) = {}

C9_Witness ==
    /\ Built
    /\ gen = "master"
    /\ Cardinality(SectionStarts) = 13
    /\ doc[LastSection].sec = 13
    /\ ~ IsPageBreak(doc[Len(doc)])
    /\ \E k \in SectionStarts : doc[k].sec = 12 /\ IsPageBreak(doc[SectionEnd(k)])

(***************************************************************************)
(* C10 as stated: the number of page-break nodes equals the number of      *)
(* named sections plus two.                                                *)
(***************************************************************************)
C10_Original ==
    Built => Cardinality(PageBreaks) = Cardinality(SectionStarts) + 2

(***************************************************************************)
(* C10 amended: the number of page-break nodes equals the number of named  *)
(* sections plus one in the proposal (cover, table of contents and every   *)
(* named section but the last) and plus two in the master (cover, table of *)
(* contents, version history and every named section but the last).        *)
(***************************************************************************)
C10_PageBreakCount ==
    Built =>
        Cardinality(PageBreaks) =
            Cardinality(SectionStarts) + (IF gen = "proposal" THEN 1 ELSE 2)

C10_Witness ==
    /\ Built
    /\ gen = "proposal"
    /\ Cardinality(SectionStarts) = 14
    /\ Cardinality(PageBreaks) = 15

(***************************************************************************)
(* Phases of build_doc.                                                    *)
(***************************************************************************)
IsTocBlockAt(k) ==
    /\ k + 2 <= Len(doc)
    /\ IsHeading(doc[k], 1) /\ doc[k].sec = 0
    /\ Cardinality(TocFields(doc[k + 1])) = 1
    /\ IsPageBreak(doc[k + 2])

IsVersionHistoryAt(k) ==
    /\ k + 2 <= Len(doc)
    /\ IsHeading(doc[k], 1) /\ doc[k].sec = 0
    /\ doc[k + 1].kind = "Table"
    /\ IsPageBreak(doc[k + 2])

Composed == section.different_first_page_header_footer

\* style first and once, then header and footer, then content; the cover
\* block comes first and the named sections come in their listed order
PhasesInOrder ==
    /\ style.sets <= 1
    /\ Composed => style.sets = 1
    /\ doc # << >> => Composed
    /\ Built =>
          /\ PageBreaks # {}
          /\ \A k \in 1 .. (CoverEnd - 1) : doc[k].kind = "Paragraph"
          /\ IsTocBlockAt(CoverEnd + 1)
          /\ \A k, m \in SectionStarts : k < m => doc[k].sec < doc[m].sec
          /\ {doc[k].sec : k \in SectionStarts} =
                1 .. Cardinality(SectionStarts)

(***************************************************************************)
(* C11 as stated: build_doc runs style initialisation (once, before any    *)
(* content), header/footer composition, the cover block ending in a page   *)
(* break, the table-of-contents block and then the named sections in their *)
(* listed order, each phase directly followed by the next.                 *)
(***************************************************************************)
C11_Original ==
    /\ PhasesInOrder
    /\ Built =>
          /\ CoverEnd + 4 <= Len(doc)
          /\ IsSectionHeading(doc[CoverEnd + 4])
          /\ doc[CoverEnd + 4].sec = 1

(***************************************************************************)
(* C11 amended: the phases run in that fixed order, none skipped, repeated *)
(* or reordered, and in the proposal the named sections follow the         *)
(* table-of-contents block directly; in the master a version-history block *)
(* (level-1 heading, table, page break) stands between the                 *)
(* table-of-contents block and the first named section.                    *)
(***************************************************************************)
C11_PhasesWithVersionHistory ==
    /\ PhasesInOrder
    /\ Built =>
          LET first == IF gen = "proposal" THEN CoverEnd + 4 ELSE CoverEnd + 7
          IN  /\ first <= Len(doc)
              /\ gen = "master" => IsVersionHistoryAt(CoverEnd + 4)
              /\ IsSectionHeading(doc[first])
              /\ doc[first].sec = 1
              /\ first = Min(SectionStarts)

C11_Witness ==
    /\ Built
    /\ gen = "master"
    /\ style.sets = 1
    /\ Composed
    /\ IsTocBlockAt(6)
    /\ IsVersionHistoryAt(9)
    /\ doc[12].sec = 1

(***************************************************************************)
(* The helpers called on their own, on every input within the bounds.      *)
(***************************************************************************)
MaxItems == 1       \* longest list argument of _feature_section
MaxParas == 2       \* most paragraphs a header or footer starts with
MaxChildren == 2    \* most children of the paragraph given to a field

Texts == {"a", "b"}

SeqsUpTo(S, n) == UNION {[1 .. m -> S] : m \in 0 .. n}

FeatureInputs ==
    [title : Texts, overview : Texts,
     key_capabilities : SeqsUpTo(Texts, MaxItems),
     business_benefit : Texts, operational_benefit : Texts,
     risk_benefit : Texts,
     operational_notes : SeqsUpTo(Texts, MaxItems),
     kpis : SeqsUpTo(Texts, MaxItems),
     typical_outcomes : SeqsUpTo(Texts, MaxItems),
     example_steps : SeqsUpTo(Texts, MaxItems)]

OldParas == {HFPara("none", << >>), HFPara("LEFT", << Run("old") >>)}

SectionInputs ==
    {NewSection(hps, fps) : hps \in SeqsUpTo(OldParas, MaxParas),
                            fps \in SeqsUpTo(OldParas, MaxParas)}

Instrs == {"PAGE", "NUMPAGES", TOC_INSTR, ""}
ChildInputs == SeqsUpTo({Run("Page "), fldSimple("PAGE")}, MaxChildren)

\* inputs whose lists have two different items, in either order
TwoItemLists == {<< >>, << "a", "b" >>, << "b", "a" >>}

OrderedFeatureInputs ==
    [title : {"a"}, overview : {"b"},
     key_capabilities : TwoItemLists,
     business_benefit : {"a"}, operational_benefit : {"b"},
     risk_benefit : {"a"},
     operational_notes : TwoItemLists,
     kpis : TwoItemLists,
     typical_outcomes : TwoItemLists,
     example_steps : TwoItemLists]
UnitCalls ==
    {[fn |-> "_feature_section", f |-> f] :
        f \in FeatureInputs \cup OrderedFeatureInputs}
    \cup {[fn |-> "_add_header_footer", g |-> g, s |-> s] :
             g \in Generators, s \in SectionInputs}
    \cup {[fn |-> "_add_field_simple", children |-> c, instr |-> x] :
             c \in ChildInputs, x \in Instrs}

InitCalls ==
    /\ unit_call \in UnitCalls
    /\ unit_ret = Pending
    /\ gen = "proposal"
    /\ env = [l \in Locs |-> "writable"]
    /\ pc = "unit"
    /\ ip = 0
    /\ doc = << >>
    /\ style = [name |-> "default", size |-> 0, sets |-> 0]
    /\ section = NewSection(EmptyPart.paragraphs, EmptyPart.paragraphs)
    /\ i = 1
    /\ dirs = {}
    /\ files = [l \in Locs |-> NoFile]
    /\ attempts = << >>
    /\ saved_to = None
    /\ stdout = << >>
    /\ exit = Running

Returns(fn, value) ==
    /\ pc = "unit"
    /\ unit_call.fn = fn
    /\ ~ unit_ret.done
    /\ unit_ret' = ReturnedValue(value)
    /\ UNCHANGED << unit_call, gen, env, pc, ip, buildVars, saveVars >>

call_feature_section ==
    /\ unit_call.fn = "_feature_section"
    /\ Returns("_feature_section", _feature_section(unit_call.f))

call_add_header_footer ==
    /\ unit_call.fn = "_add_header_footer"
    /\ Returns("_add_header_footer",
               _add_header_footer(unit_call.g, unit_call.s))

call_add_field_simple ==
    /\ unit_call.fn = "_add_field_simple"
    /\ Returns("_add_field_simple",
               _add_field_simple(unit_call.children, unit_call.instr))

NextCalls ==
    \/ call_feature_section
    \/ call_add_header_footer
    \/ call_add_field_simple

SpecCalls == InitCalls /\ [][NextCalls]_vars

Returned_(fn) == unit_call.fn = fn /\ unit_ret.done

(***************************************************************************)
(* Shape of the block appended by _feature_section.                        *)
(***************************************************************************)
Kind(n) ==
    CASE n.kind = "Heading" -> "heading"
      [] n.kind = "Paragraph" /\ n.style = "List Bullet" -> "bullet"
      [] n.kind = "Paragraph" /\ n.style = "List Number" -> "numbered"
      [] n.kind = "Paragraph" -> "paragraph"
      [] OTHER -> n.kind

Kinds(nodes) == [k \in DOMAIN nodes |-> Kind(nodes[k])]

ListFields == {"key_capabilities", "operational_notes", "kpis",
               "typical_outcomes", "example_steps"}

\* the same input with one list emptied
Emptied(f, field) == [f EXCEPT ![field] = << >>]

\* the same input with every text replaced, all lengths kept
Blank(items) == [k \in DOMAIN items |-> "a"]
Retexted(f) ==
    [title |-> "a", overview |-> "a",
     key_capabilities |-> Blank(f.key_capabilities),
     business_benefit |-> "a", operational_benefit |-> "a",
     risk_benefit |-> "a",
     operational_notes |-> Blank(f.operational_notes),
     kpis |-> Blank(f.kpis),
     typical_outcomes |-> Blank(f.typical_outcomes),
     example_steps |-> Blank(f.example_steps)]

RECURSIVE SelectHeadings(_)
SelectHeadings(nodes) ==
    IF nodes = << >> THEN << >>
    ELSE (IF Head(nodes).kind = "Heading" THEN << Head(nodes) >> ELSE << >>)
         \o SelectHeadings(Tail(nodes))

HeadingLevels(nodes) ==
    LET hs == SelectHeadings(nodes) IN [k \in DOMAIN hs |-> hs[k].level]

ExpectedKinds(f) ==
    << "heading", "paragraph", "heading" >>
    \o Rep("bullet", Len(f.key_capabilities))
    \o << "heading", "bullet", "bullet", "bullet", "heading" >>
    \o Rep("bullet", Len(f.operational_notes))
    \o << "heading" >>
    \o Rep("bullet", Len(f.kpis))
    \o << "heading" >>
    \o Rep("bullet", Len(f.typical_outcomes))
    \o << "heading" >>
    \o Rep("numbered", Len(f.example_steps))

(***************************************************************************)
(* C12 as stated: the sequence of node kinds emitted by _feature_section   *)
(* is the same whatever the content of the fields, also when a sequence    *)
(* field is empty.                                                         *)
(***************************************************************************)
C12_Original ==
    Returned_("_feature_section") =>
        /\ Kinds(unit_ret.value) =
              Kinds(_feature_section(Retexted(unit_call.f)))
        /\ \A field \in ListFields :
              Kinds(unit_ret.value) =
                 Kinds(_feature_section(Emptied(unit_call.f, field)))

(***************************************************************************)
(* C12 amended: the sequence of node kinds depends on the lengths of the   *)
(* five sequence fields only, never on a text: heading, paragraph,         *)
(* heading, a bullet per capability, heading, three bullets, heading, a    *)
(* bullet per note, heading, a bullet per KPI, heading, a bullet per       *)
(* outcome, heading, a numbered item per step.  The headings are the same  *)
(* for every input, also when a sequence field is empty; the number of     *)
(* list nodes between them changes with the lengths.                       *)
(***************************************************************************)
C12_KindsFollowLengths ==
    Returned_("_feature_section") =>
        /\ Kinds(unit_ret.value) = ExpectedKinds(unit_call.f)
        /\ Kinds(unit_ret.value) =
              Kinds(_feature_section(Retexted(unit_call.f)))
        /\ \A field \in ListFields :
              HeadingLevels(unit_ret.value) =
                 HeadingLevels(_feature_section(Emptied(unit_call.f, field)))

C12_Witness ==
    /\ Returned_("_feature_section")
    /\ unit_call.f.key_capabilities = << >>
    /\ unit_call.f.example_steps # << >>
    /\ unit_call.f.title = "b"
    /\ Len(unit_ret.value) = 12

(***************************************************************************)
(* C13: each of the five sequence fields of _feature_section emits its own *)
(* level-3 heading even when the field is empty (the heading is then       *)
(* followed by no list item), so the block always holds one level-2        *)
(* heading and six level-3 headings, in the same order.                    *)
(***************************************************************************)
FeatureHeadings(f) ==
    << Heading(2, 0, f.title),
       Heading(3, 0, "Key capabilities"),
       Heading(3, 0, "Benefits"),
       Heading(3, 0, "Operational notes (enterprise-friendly)"),
       Heading(3, 0, "KPIs & measurable outcomes"),
       Heading(3, 0, "Typical outcomes (what clients can expect)"),
       Heading(3, 0, "Example in practice (simplified)") >>

\* position of the heading with the given title, 0 when there is none
HeadingAt(nodes, title) ==
    LET at == {k \in DOMAIN nodes :
                  nodes[k].kind = "Heading" /\ nodes[k].text = title}
    IN  IF at = {} THEN 0 ELSE Min(at)

\* number of list nodes from the heading of a title to the next heading
ItemsUnder(nodes, title) ==
    LET h == HeadingAt(nodes, title)
        next == {k \in DOMAIN nodes : k > h /\ nodes[k].kind = "Heading"}
        end == IF next = {} THEN Len(nodes) ELSE Min(next) - 1
    IN  end - h

C13_HeadingsAlwaysEmitted ==
    Returned_("_feature_section") =>
        LET f == unit_call.f
            out == unit_ret.value
        IN  /\ SelectHeadings(out) = FeatureHeadings(f)
            /\ Cardinality({k \in DOMAIN out : IsHeading(out[k], 2)}) = 1
            /\ Cardinality({k \in DOMAIN out : IsHeading(out[k], 3)}) = 6
            /\ ItemsUnder(out, "Key capabilities") = Len(f.key_capabilities)
            /\ ItemsUnder(out, "Operational notes (enterprise-friendly)") =
                  Len(f.operational_notes)
            /\ ItemsUnder(out, "KPIs & measurable outcomes") = Len(f.kpis)
            /\ ItemsUnder(out, "Typical outcomes (what clients can expect)") =
                  Len(f.typical_outcomes)
            /\ ItemsUnder(out, "Example in practice (simplified)") =
                  Len(f.example_steps)

C13_Witness ==
    /\ Returned_("_feature_section")
    /\ \A field \in ListFields : unit_call.f[field] = << >>
    /\ Len(unit_ret.value) = 11
    /\ Len(SelectHeadings(unit_ret.value)) = 7

(***************************************************************************)
(* C14: every row of every emitted table (value summary, implementation    *)
(* phases, version history), the header row included, has as many cells as *)
(* there are header labels.                                                *)
(***************************************************************************)
Tables == {k \in DOMAIN doc : doc[k].kind = "Table"}

C14_RowsMatchHeader ==
    /\ \A k \in Tables :
          /\ Len(doc[k].rows) >= 2
          /\ \A r \in DOMAIN doc[k].rows : doc[k].rows[r] = doc[k].cols
    /\ Built =>
          {<< doc[k].cols, Len(doc[k].rows) >> : k \in Tables} =
             IF gen = "proposal" THEN {<< 4, 7 >>, << 3, 6 >>}
             ELSE {<< 4, 2 >>}

C14_Witness ==
    /\ Built
    /\ gen = "proposal"
    /\ Cardinality(Tables) = 2
    /\ \E k \in Tables : doc[k].cols = 3 /\ doc[k].rows = << 3, 3, 3, 3, 3, 3 >>

(***************************************************************************)
(* C16: _add_header_footer completes whether the header and the footer     *)
(* start with no paragraph or with some: the first paragraph is reused     *)
(* when there is one and a new one is created otherwise, and the composed  *)
(* header text ends up in exactly one paragraph.                           *)
(***************************************************************************)
HeaderText(g) ==
    IF g = "proposal" THEN Run("SYSTEM_NAME") ELSE Run("SYSTEM_NAME v VERSION")

Holds(para, run) == \E c \in DOMAIN para.children : para.children[c] = run

ReusedOrCreated(before_, after) ==
    /\ Len(after) = (IF before_ = << >> THEN 1 ELSE Len(before_))
    /\ \A k \in 2 .. Len(after) : after[k] = before_[k]

C16_ReuseOrCreateParagraph ==
    /\ (pc = "unit" /\ unit_call.fn = "_add_header_footer" /\ ~ unit_ret.done)
          => ENABLED call_add_header_footer
    /\ Returned_("_add_header_footer") =>
          LET s == unit_call.s
              out == unit_ret.value
              hps == out.header.paragraphs
          IN  /\ ReusedOrCreated(s.header.paragraphs, hps)
              /\ ReusedOrCreated(s.footer.paragraphs, out.footer.paragraphs)
              /\ hps[1] = HFPara("CENTER", << HeaderText(unit_call.g) >>)
              /\ {k \in DOMAIN hps : Holds(hps[k], HeaderText(unit_call.g))}
                    = {1}

C16_Witness ==
    /\ Returned_("_add_header_footer")
    /\ unit_call.s.header.paragraphs = << >>
    /\ unit_call.s.footer.paragraphs = << >>
    /\ Len(unit_ret.value.header.paragraphs) = 1
    /\ unit_call.g = "master"

C16_WitnessReuse ==
    /\ Returned_("_add_header_footer")
    /\ Len(unit_call.s.header.paragraphs) = 2
    /\ unit_call.s.header.paragraphs[1] = HFPara("LEFT", << Run("old") >>)
    /\ Len(unit_ret.value.header.paragraphs) = 2

(***************************************************************************)
(* C17: after _add_header_footer the page-number paragraph of the footer   *)
(* holds four children in this order: run "Page ", PAGE field, run " of ", *)
(* NUMPAGES field.  In the proposal it is the centered footer paragraph;   *)
(* in the master it is the right-aligned cell of a two-column footer table *)
(* whose left cell holds the left-aligned confidential notice.             *)
(***************************************************************************)
PageNumberChildren ==
    << Run("Page "),
       [t |-> "fldSimple", instr |-> "PAGE", text |-> " "],
       Run(" of "),
       [t |-> "fldSimple", instr |-> "NUMPAGES", text |-> " "] >>

CoverNodes == IF gen = "proposal" THEN _cover_page ELSE _title_page

C18_FirstPageSuppressed ==
    /\ (ip >= 2 \/ Built) =>
          /\ section.different_first_page_header_footer
          /\ section.first_page_header = BlankPart
          /\ section.first_page_footer = BlankPart
          /\ Holds(section.header.paragraphs[1], HeaderText(gen))
          /\ \/ section.footer.paragraphs[1].children = PageNumberChildren
             \/ /\ section.footer.tables # << >>
                /\ section.footer.tables[1][2].children = PageNumberChildren
    /\ Built =>
          /\ Len(doc) > Len(CoverNodes)
          /\ \A k \in 1 .. (Len(CoverNodes) - 1) :
                doc[k].kind = "Paragraph" /\ doc[k] = CoverNodes[k]
          /\ IsPageBreak(doc[Len(CoverNodes)])
          /\ CoverEnd = Len(CoverNodes)

C18_Witness ==
    /\ Done
    /\ gen = "master"
    /\ section.different_first_page_header_footer
    /\ section.first_page_header = BlankPart
    /\ section.footer.tables # << >>
    /\ IsPageBreak(doc[5])

(***************************************************************************)
(* C19: at every point of build_doc the document has exactly one layout    *)
(* section: the layout sections of a document are its final one plus one   *)
(* per section-break node, and no builder operation appends a section      *)
(* break; page breaks are content nodes.                                   *)
(***************************************************************************)
SectionBreaks == {k \in DOMAIN doc : doc[k].kind = "SectionBreak"}
NumLayoutSections == 1 + Cardinality(SectionBreaks)

C19_OneLayoutSection ==
    /\ NumLayoutSections = 1
    /\ \A k \in DOMAIN doc :
          doc[k].kind \in {"Heading", "Paragraph", "Table", "PageBreak"}

C19_Witness ==
    /\ Built
    /\ gen = "proposal"
    /\ Cardinality(PageBreaks) = 15
    /\ Tables # {}
    /\ NumLayoutSections = 1

(***************************************************************************)
(* C20: for every paragraph and every instruction string                   *)
(* _add_field_simple succeeds and appends exactly one field marker as the  *)
(* last child of the paragraph, with the given instruction unchanged and a *)
(* display text of one space; the earlier children stay as they were, in   *)
(* order.                                                                  *)
(***************************************************************************)
C20_FieldAppended ==
    /\ (pc = "unit" /\ unit_call.fn = "_add_field_simple" /\ ~ unit_ret.done)
          => ENABLED call_add_field_simple
    /\ Returned_("_add_field_simple") =>
          LET old == unit_call.children
              new == unit_ret.value
          IN  /\ Len(new) = Len(old) + 1
              /\ \A k \in DOMAIN old : new[k] = old[k]
              /\ new[Len(new)].t = "fldSimple"
              /\ new[Len(new)].instr = unit_call.instr
              /\ new[Len(new)].text = " "

C20_Witness ==
    /\ Returned_("_add_field_simple")
    /\ unit_call.children = << Run("Page "), fldSimple("PAGE") >>
    /\ unit_call.instr = TOC_INSTR
    /\ Len(unit_ret.value) = 3

(***************************************************************************)
(* C21: build_doc performs no output I/O.  No step taken while build_doc   *)
(* runs (its return included) changes the created directories, the written *)
(* files or the log of file system calls; a directory is created or a file *)
(* written only by a step of the save step.                                *)
(***************************************************************************)
SaveStepPositions ==
    {"_save_doc.makedirs", "_save_doc.save", "main.makedirs", "main.save",
     "main.fallback_makedirs", "main.fallback_save"}

C21_BuildDocNoIO ==
    [][ /\ pc = "build_doc" => UNCHANGED << dirs, files, attempts >>
        /\ (dirs' # dirs \/ files' # files) => pc \in SaveStepPositions
      ]_vars

C21_Witness ==
    /\ pc \in {"_save_doc.makedirs", "main.makedirs"}
    /\ ip = Len(build_doc(gen))
    /\ Len(doc) > ip
    /\ dirs = {}
    /\ files = [l \in Locs |-> NoFile]
    /\ attempts = << >>

(***************************************************************************)
(* C22: once build_doc has returned, the document is not mutated: no step  *)
(* of the save step, failed or successful, changes the node sequence (or   *)
(* the style and layout section), and a file written at any candidate      *)
(* holds exactly that node sequence, so the fallback receives the content  *)
(* that was offered to the primary path.                                   *)
(***************************************************************************)
C22_DocumentFrozenAfterBuild ==
    /\ [][Built => UNCHANGED << doc, style, section >>]_vars
    /\ [](\A l \in Locs : files[l] # NoFile => files[l] = doc)

C22_Witness ==
    /\ Done
    /\ FailedOn("primary")
    /\ \E j \in CallsOn("primary", "save") : attempts[j].result # "ok"
    /\ files["fallback"] = doc
    /\ Len(doc) > 100

(***************************************************************************)
(* C23: every heading node in the document has a level in {1, 2, 3}, at    *)
(* every point of build_doc and after it, so every heading falls in the    *)
(* range of the TOC field (\o "1-3").                                      *)
(***************************************************************************)
Headings == {k \in DOMAIN doc : doc[k].kind = "Heading"}

C23_HeadingLevelsInRange ==
    \A k \in Headings : doc[k].level \in {1, 2, 3}

C23_Witness ==
    /\ Built
    /\ \A level \in {1, 2, 3} : \E k \in Headings : doc[k].level = level
    /\ \E k \in Headings : doc[k].text = "Table of Contents"

(***************************************************************************)
(* The row loops of the proposal's two tables, run on other row data.      *)
(* The rows are literals of build_doc; to see what the loops do with a     *)
(* row of another arity, main is run with the rows of one table replaced   *)
(* by rows whose arities are drawn from a bounded set.  The header of the  *)
(* loop unpacks the row tuple into as many names as the table has columns  *)
(* ("for outcome, what, who, why in rows"), before add_row() is called.    *)
(***************************************************************************)
MaxRows == 2        \* most data rows of the replaced table

ValueError == [type |-> "ValueError", paths |-> {}]

RowTables == {"_add_value_summary_table", "add_table"}

\* index of the statement of build_doc that builds the table
TableStmt(op) ==
    CHOOSE k \in DOMAIN proposal_build_doc : proposal_build_doc[k].op = op

\* add_table(rows=1, cols=...) of the table
TableCols(op) ==
    IF op = "_add_value_summary_table" THEN 4
    ELSE proposal_build_doc[TableStmt(op)].cols

RowCalls ==
    {[fn |-> "main", table |-> op, arities |-> a] :
        op \in RowTables,
        a \in UNION {SeqsUpTo({c - 1, c, c + 1}, MaxRows) :
                        c \in {3, 4}}}

InitRows ==
    /\ unit_call \in {c \in RowCalls :
                        \A k \in DOMAIN c.arities :
                            c.arities[k] \in {TableCols(c.table) - 1,
                                              TableCols(c.table),
                                              TableCols(c.table) + 1}}
    /\ unit_ret = Pending
    /\ gen = "proposal"
    /\ env \in [Locs -> {"writable", "save_OSError"}]
    /\ pc = "build_doc"
    /\ ip = 0
    /\ doc = << >>
    /\ style = [name |-> "default", size |-> 0, sets |-> 0]
    /\ section = NewSection(EmptyPart.paragraphs, EmptyPart.paragraphs)
    /\ i = 1
    /\ dirs = {}
    /\ files = [l \in Locs |-> NoFile]
    /\ attempts = << >>
    /\ saved_to = None
    /\ stdout = << >>
    /\ exit = Running

\* faulty variant: a row of another arity is padded or truncated to the
\* number of columns
add_rows_padding(c, arities) ==
    [rows |-> Rep(c, Len(arities)), raised |-> "None"]

\* for a, b, ... in rows: row = table.add_row().cells; row[k].text = ...
\* The result holds the rows added (each has the table's c cells) and the
\* exception that ended the loop, if any.
RECURSIVE add_rows(_, _)
add_rows(c, arities) ==
    IF arities = << >> THEN [rows |-> << >>, raised |-> "None"]
    ELSE IF Head(arities) # c THEN [rows |-> << >>, raised |-> "ValueError"]
    ELSE LET rest == add_rows(c, Tail(arities))
         IN  [rows |-> << c >> \o rest.rows, raised |-> rest.raised]

\* the table statement, with the given rows; an exception of the loop is
\* caught neither by build_doc nor by main
build_table(c, arities) ==
    LET r == add_rows(c, arities)
    IN  /\ doc' = Append(doc, Table(c, << c >> \o r.rows))
        /\ IF r.raised = "None"
           THEN /\ ip' = ip + 1
                /\ UNCHANGED << pc, exit >>
           ELSE /\ pc' = "exit"
                /\ exit' = Uncaught(ValueError)
                /\ UNCHANGED ip
        /\ UNCHANGED << unit_call, unit_ret, gen, env, style, section, i,
                        dirs, files, attempts, saved_to, stdout >>

\* the rows the table statement at hand loops over
RowsAt(op, literal) ==
    IF unit_call.table = op THEN unit_call.arities ELSE literal

Rows_add_value_summary_table ==
    /\ At("_add_value_summary_table")
    /\ build_table(4, RowsAt("_add_value_summary_table", Rep(4, 6)))

Rows_add_table ==
    /\ At("add_table")
    /\ build_table(Stmt.cols, RowsAt("add_table", Rep(Stmt.cols, Stmt.rows)))

NextRows ==
    \/ Step_set_normal_style
    \/ Step_add_header_footer
    \/ Step_cover_page
    \/ Step_toc
    \/ Step_h1
    \/ Step_h2
    \/ Step_h3
    \/ Step_p
    \/ Step_bullet
    \/ Step_num
    \/ Step_add_page_break
    \/ Step_feature_section
    \/ Rows_add_value_summary_table
    \/ Rows_add_table
    \/ Step_return
    \/ proposal_makedirs
    \/ proposal_save
    \/ proposal_raise
    \/ proposal_main_print

SpecRows == InitRows /\ [][NextRows]_vars

(***************************************************************************)
(* C24: a data row whose arity differs from the number of header columns   *)
(* is not padded, truncated or caught: the run never gets past the table   *)
(* statement, it ends there with the uncaught error, no row is added for   *)
(* the offending tuple, build_doc does not return, and the save step is    *)
(* never entered, so no directory is created, no file written and nothing  *)
(* printed.                                                                *)
(***************************************************************************)
Mismatched ==
    \E k \in DOMAIN unit_call.arities :
        unit_call.arities[k] # TableCols(unit_call.table)

FirstMismatch ==
    Min({k \in DOMAIN unit_call.arities :
            unit_call.arities[k] # TableCols(unit_call.table)})

C24_ArityMismatchAborts ==
    Mismatched =>
        /\ pc \in {"build_doc", "exit"}
        /\ ip < TableStmt(unit_call.table)
        /\ dirs = {} /\ attempts = << >> /\ saved_to = None
        /\ stdout = << >>
        /\ \A l \in Locs : NoFileAt(l)
        /\ \A k \in Tables : \A j \in DOMAIN doc[k].rows :
               doc[k].rows[j] = doc[k].cols
        /\ Done =>
              /\ exit = Uncaught(ValueError)
              /\ ip = TableStmt(unit_call.table) - 1
              /\ doc[Len(doc)].kind = "Table"
              /\ Len(doc[Len(doc)].rows) = FirstMismatch

C24_Witness ==
    /\ Done
    /\ unit_call.table = "add_table"
    /\ unit_call.arities = << 3, 4 >>
    /\ exit.status = 1
    /\ doc[Len(doc)] = Table(3, << 3, 3 >>)
    /\ attempts = << >>

(***************************************************************************)
(* C25: for every input _feature_section appends, in this order: the       *)
(* level-2 title heading, the overview paragraph, the "Key capabilities"   *)
(* heading with one bullet per capability, the "Benefits" heading with     *)
(* exactly three bullets (business, operational, risk, in that order), the *)
(* "Operational notes" heading with one bullet per note, the "KPIs"        *)
(* heading with one bullet per KPI, the "Typical outcomes" heading with    *)
(* one bullet per outcome, and the "Example in practice" heading with one  *)
(* numbered item per step; list items keep the input order, and the block  *)
(* has exactly 11 + (sum of the five list lengths) nodes.                  *)
(***************************************************************************)
Item(pstyle, text) == [kind |-> "Paragraph", style |-> pstyle,
                       children |-> << [t |-> "r", text |-> text] >>]

SubHeading(title) == [kind |-> "Heading", level |-> 3, sec |-> 0,
                      text |-> title]

\* the nodes after position h are the items, one node each, in input order
ListAfter(out, h, pstyle, items) ==
    \A k \in DOMAIN items :
        /\ h + k \in DOMAIN out
        /\ out[h + k] = Item(pstyle, items[k])

C25_FeatureSectionOrder ==
    Returned_("_feature_section") =>
        LET f == unit_call.f
            out == unit_ret.value
            caps == 3
            benefits == caps + Len(f.key_capabilities) + 1
            notes == benefits + 4
            kpis == notes + Len(f.operational_notes) + 1
            outcomes == kpis + Len(f.kpis) + 1
            example == outcomes + Len(f.typical_outcomes) + 1
        IN  /\ Len(out) = 11 + Len(f.key_capabilities)
                             + Len(f.operational_notes) + Len(f.kpis)
                             + Len(f.typical_outcomes) + Len(f.example_steps)
            /\ Len(out) = example + Len(f.example_steps)
            /\ out[1] = [kind |-> "Heading", level |-> 2, sec |-> 0,
                         text |-> f.title]
            /\ out[2] = Item("Normal", f.overview)
            /\ out[caps] = SubHeading("Key capabilities")
            /\ ListAfter(out, caps, "List Bullet", f.key_capabilities)
            /\ out[benefits] = SubHeading("Benefits")
            /\ out[benefits + 1] =
                  Item("List Bullet",
                       << "Business benefit: ", f.business_benefit >>)
            /\ out[benefits + 2] =
                  Item("List Bullet",
                       << "Operational benefit: ", f.operational_benefit >>)
            /\ out[benefits + 3] =
                  Item("List Bullet",
                       << "Risk mitigation benefit: ", f.risk_benefit >>)
            /\ out[notes] =
                  SubHeading("Operational notes (enterprise-friendly)")
            /\ ListAfter(out, notes, "List Bullet", f.operational_notes)
            /\ out[kpis] = SubHeading("KPIs & measurable outcomes")
            /\ ListAfter(out, kpis, "List Bullet", f.kpis)
            /\ out[outcomes] =
                  SubHeading("Typical outcomes (what clients can expect)")
            /\ ListAfter(out, outcomes, "List Bullet", f.typical_outcomes)
            /\ out[example] = SubHeading("Example in practice (simplified)")
            /\ ListAfter(out, example, "List Number", f.example_steps)

C25_Witness ==
    /\ Returned_("_feature_section")
    /\ unit_call.f.key_capabilities = << "b", "a" >>
    /\ unit_call.f.operational_notes = << >>
    /\ unit_call.f.example_steps = << "a", "b" >>
    /\ unit_call.f.kpis = << "a", "b" >>
    /\ unit_call.f.typical_outcomes = << "b", "a" >>
    /\ Len(unit_ret.value) = 19
    /\ unit_ret.value[4] = Item("List Bullet", "b")
    /\ unit_ret.value[19] = Item("List Number", "b")

(***************************************************************************)
(* C26: for each candidate the creation of its parent directory is         *)
(* attempted before its write: every write in the log of file system calls *)
(* directly follows a successful directory creation for the same path, so  *)
(* no write is attempted at a candidate whose directory creation failed;   *)
(* and a directory the run created stays in place, also when the write     *)
(* that follows it fails.                                                  *)
(***************************************************************************)
C26_MakedirsBeforeSaveNoRollback ==
    /\ \A j \in DOMAIN attempts :
          attempts[j].call = "save" =>
              /\ j > 1
              /\ attempts[j - 1].call = "makedirs"
              /\ attempts[j - 1].path = attempts[j].path
              /\ attempts[j - 1].result = "ok"
    /\ \A l \in Locs :
          (\E j \in CallsOn(l, "makedirs") : attempts[j].result # "ok")
              => CallsOn(l, "save") = {}
    /\ \A l \in Locs :
          l \in dirs <=>
              \E j \in CallsOn(l, "makedirs") : attempts[j].result = "ok"

C26_Witness ==
    /\ Done
    /\ gen = "proposal"
    /\ \E j \in CallsOn("primary", "save") : attempts[j].result = "OSError"
    /\ "primary" \in dirs
    /\ NoFileAt("primary")
    /\ \E j \in CallsOn("fallback", "makedirs") : attempts[j].result # "ok"
    /\ CallsOn("fallback", "save") = {}

(***************************************************************************)
(* The two save procedures as functions of the file system condition: the  *)
(* file system calls made, the location resolved and whether the procedure *)
(* ends with an exception.                                                 *)
(***************************************************************************)
\* os.makedirs(os.path.dirname(path), exist_ok=True); doc.save(path)
try_path(e, path) ==
    LET m == makedirs_result(e[Loc(path)])
        s == save_result(e[Loc(path)])
    IN  IF m # "ok"
        THEN [tried |-> << << Loc(path), "makedirs" >> >>, raised |-> m]
        ELSE [tried |-> << << Loc(path), "makedirs" >>,
                           << Loc(path), "save" >> >>,
              raised |-> IF s = "ok" THEN "None" ELSE s]

\* proposal: _save_doc, from the k-th candidate on
RECURSIVE _save_doc_from(_, _)
_save_doc_from(e, k) ==
    IF k > Len(CANDIDATES)
    THEN [tried |-> << >>, resolved |-> "none", failed |-> TRUE]
    ELSE LET t == try_path(e, CANDIDATES[k])
         IN  IF t.raised = "None"
             THEN [tried |-> t.tried, resolved |-> Loc(CANDIDATES[k]),
                   failed |-> FALSE]
             ELSE IF proposal_except(t.raised)
             THEN LET rest == _save_doc_from(e, k + 1)
                  IN  [rest EXCEPT !.tried = t.tried \o rest.tried]
             ELSE [tried |-> t.tried, resolved |-> "none", failed |-> TRUE]

_save_doc(e) == _save_doc_from(e, 1)

\* master: the save part of main
master_main_save(e) ==
    LET t == try_path(e, OUTPUT_PATH)
        u == try_path(e, abspath(FALLBACK_OUTPUT_PATH))
    IN  IF t.raised = "None"
        THEN [tried |-> t.tried, resolved |-> Loc(OUTPUT_PATH),
              failed |-> FALSE]
        ELSE IF master_except(t.raised)
        THEN [tried |-> t.tried \o u.tried,
              resolved |-> IF u.raised = "None"
                           THEN Loc(abspath(FALLBACK_OUTPUT_PATH))
                           ELSE "none",
              failed |-> u.raised # "None"]
        ELSE [tried |-> t.tried, resolved |-> "none", failed |-> TRUE]

save_procedure(g, e) ==
    IF g = "proposal" THEN _save_doc(e) ELSE master_main_save(e)

\* what the run at hand did
Observed ==
    [tried |-> [j \in DOMAIN attempts |->
                   << Loc(attempts[j].path), attempts[j].call >>],
     resolved |-> IF saved_to = None THEN "none" ELSE Loc(saved_to),
     failed |-> exit.status # 0]

\* the functions above agree with the steps of the save step
SaveProcedureAgrees == Done => Observed = save_procedure(gen, env)

Other(g) == IF g = "proposal" THEN "master" ELSE "proposal"

(***************************************************************************)
(* C27: the save procedures of the two generators are equivalent: in every *)
(* file system condition (success, OS-level failure or other failure of    *)
(* the directory creation and of the write, at the primary and at the      *)
(* fallback location) a finished run has tried the same candidates in the  *)
(* same order, and ended in the same outcome (same location resolved, or   *)
(* both failing), as the other generator's procedure does in the same      *)
(* condition.                                                              *)
(***************************************************************************)
C27_SaveProceduresEquivalent ==
    Done => Observed = save_procedure(Other(gen), env)

\* the two procedures do agree whenever the primary location succeeds or
\* fails with an OS-level error
C27_EquivalentOnOSErrors ==
    (Done /\ env["primary"] \notin {"makedirs_Exception", "save_Exception"})
        => Observed = save_procedure(Other(gen), env)

(***************************************************************************)
(* C28: at every point of a run of either generator at most one candidate  *)
(* location holds a document written by the run: once the primary write    *)
(* has succeeded no further file system call is made, so the fallback is   *)
(* never written after it, and no run leaves output at both locations.     *)
(***************************************************************************)
WrittenAt == {l \in Locs : files[l] # NoFile}

SectionStartsAll == {k \in DOMAIN doc : IsHeading(doc[k], 1)}
Max(S) == CHOOSE x \in S : \A y \in S : y <= x

\* position of the most recent level-1 heading before position k, or 0
LastH1Before(k) ==
    LET s == {j \in SectionStartsAll : j < k}
    IN  IF s = {} THEN 0 ELSE Max(s)

C29_HeadingsWellNested ==
    Built =>
        \A k \in Headings :
            /\ doc[k].level = 2 => LastH1Before(k) > 0
            /\ doc[k].level = 3 =>
                  \E j \in (LastH1Before(k) + 1) .. (k - 1) :
                      IsHeading(doc[j], 2)

C29_Witness ==
    /\ Built
    /\ \E k \in Headings : doc[k].level = 3
    /\ \E k \in Headings : doc[k].level = 2
    /\ Cardinality(SectionStartsAll) >= 15
    /\ \E k \in Headings : doc[k].level = 3 /\ IsHeading(doc[k - 1], 2)

(***************************************************************************)
(* C30: in the node sequence produced by build_doc every page break is     *)
(* directly followed by a level-1 heading, every level-1 heading is the    *)
(* first node after a page break (so each segment between page breaks      *)
(* after the cover block has exactly one level-1 heading, as its first     *)
(* node), and the cover block holds no heading.                            *)
(***************************************************************************)
C30_PageBreaksOpenSections ==
    Built =>
        /\ \A k \in PageBreaks :
              k < Len(doc) /\ IsHeading(doc[k + 1], 1)
        /\ \A k \in SectionStartsAll :
              k > 1 /\ IsPageBreak(doc[k - 1])
        /\ Cardinality(SectionStartsAll) = Cardinality(PageBreaks)
        /\ \A k \in 1 .. CoverEnd : doc[k].kind # "Heading"

C30_Witness ==
    /\ Built
    /\ gen = "master"
    /\ Cardinality(PageBreaks) = 15
    /\ Cardinality(SectionStartsAll) = 15
    /\ CoverEnd = 5
    /\ doc[6].text = "Table of Contents"
    /\ ~ IsPageBreak(doc[Len(doc)])

====
